---------------------------- MODULE Spec2Model ----------------------------
(***************************************************************************)
(* Model of generateProxy.js (the "proxyManager"): the periodic check of   *)
(* PROXY_SERVER in .env, the fetch / validate / select / persist pipeline, *)
(* and the timer that drives it.                                           *)
(*                                                                         *)
(* Text is modelled as a sequence of tokens: "\n", " ", "=", "://",        *)
(* "http", "https", "PROXY_SERVER" and atoms such as "1" (a host:port) or  *)
(* "FOO".  A file is a record [exists, data] with data such a sequence.    *)
(*                                                                         *)
(* JavaScript runs a callback to its next await of real I/O without        *)
(* interleaving.  The awaits of real I/O are the axios.get of              *)
(* validateSingleProxy and of fetchGitHubProxies: each action below is the *)
(* code that runs from one such response to the next request.  The file    *)
(* system calls of one continuation are split into one action per system   *)
(* call so that the on-disk states between them are states of the model;   *)
(* InSync keeps every other callback from running between them.            *)
(***************************************************************************)
EXTENDS Integers, Sequences, FiniteSets, TLC

(***************************************************************************)
(* Bounds of the model.                                                    *)
(***************************************************************************)
MaxTicks == 2
MaxCandidates == 102
MaxListed == 5
MaxEnvLines == 3

(***************************************************************************)
(* Program constants.                                                      *)
(***************************************************************************)
QUOTA == 100
NumSources == 2
ENV_KEY == <<"PROXY_SERVER">>

(***************************************************************************)
(* String primitives of JavaScript, on token sequences.                    *)
(***************************************************************************)
Range(s) == {s[i] : i \in 1..Len(s)}

StartsWith(s, p) == Len(s) >= Len(p) /\ SubSeq(s, 1, Len(p)) = p

Includes(s, p) ==
    \E i \in 1..(Len(s) - Len(p) + 1) : SubSeq(s, i, i + Len(p) - 1) = p

IsWhite(t) == t \in {" ", "\n"}

RECURSIVE TrimStart(_)
TrimStart(s) ==
    IF s # <<>> /\ IsWhite(Head(s)) THEN TrimStart(Tail(s)) ELSE s

RECURSIVE TrimEnd(_)
TrimEnd(s) ==
    IF s # <<>> /\ IsWhite(s[Len(s)]) THEN TrimEnd(SubSeq(s, 1, Len(s) - 1)) ELSE s

Trim(s) == TrimEnd(TrimStart(s))

\* s.split(sep): always at least one piece; "" splits into [""].
RECURSIVE SplitFrom(_, _, _)
SplitFrom(s, sep, piece) ==
    IF s = <<>> THEN <<piece>>
    ELSE IF Head(s) = sep THEN <<piece>> \o SplitFrom(Tail(s), sep, <<>>)
    ELSE SplitFrom(Tail(s), sep, Append(piece, Head(s)))

Split(s, sep) == SplitFrom(s, sep, <<>>)

\* lines.join(sep): [].join is "".
RECURSIVE Join(_, _)
Join(lines, sep) ==
    IF lines = <<>> THEN <<>>
    ELSE IF Len(lines) = 1 THEN lines[1]
    ELSE lines[1] \o <<sep>> \o Join(Tail(lines), sep)

(***************************************************************************)
(* Files.                                                                  *)
(***************************************************************************)
NoFile == [exists |-> FALSE, data |-> <<>>]
File(d) == [exists |-> TRUE, data |-> d]


(***************************************************************************)
(* Proxy Store: .env (key PROXY_SERVER) and output/valid_proxies.txt.      *)
(* A value that may be null is a sequence of length 0 (null) or 1.         *)
(***************************************************************************)
Null == <<>>
Some(v) == <<v>>

KeyPrefix == ENV_KEY \o <<"=">>

RECURSIVE FirstProxyValue(_)
FirstProxyValue(envLines) ==
    IF envLines = <<>> THEN Null
    ELSE IF StartsWith(Trim(Head(envLines)), KeyPrefix)
         THEN Some(Split(Trim(Head(envLines)), "=")[2])
         ELSE FirstProxyValue(Tail(envLines))

getCurrentProxyFromEnv(env) ==
    IF ~env.exists THEN Null ELSE FirstProxyValue(Split(env.data, "\n"))

ReadEnvLines(env) == IF env.exists THEN Split(env.data, "\n") ELSE <<>>

\* Faulty variant: the lines are trimmed before the test, as the reader does.
RECURSIVE DropProxyLines_Trims(_)
DropProxyLines_Trims(envLines) ==
    IF envLines = <<>> THEN <<>>
    ELSE IF StartsWith(Trim(Head(envLines)), KeyPrefix)
         THEN DropProxyLines_Trims(Tail(envLines))
    ELSE <<Head(envLines)>> \o DropProxyLines_Trims(Tail(envLines))

RECURSIVE DropProxyLines(_)
DropProxyLines(envLines) ==
    IF envLines = <<>> THEN <<>>
    ELSE IF StartsWith(Head(envLines), KeyPrefix) THEN DropProxyLines(Tail(envLines))
    ELSE <<Head(envLines)>> \o DropProxyLines(Tail(envLines))

NewEnvData(envLines, proxyUrl) ==
    Join(Append(DropProxyLines(envLines), KeyPrefix \o proxyUrl), "\n")

\* `!currentProxy`: null and the empty string are both "no proxy".
IsMissing(currentProxy) == currentProxy = Null \/ currentProxy[1] = <<>>

(***************************************************************************)
(* Source Fetcher.                                                         *)
(***************************************************************************)
RECURSIVE TrimAndDropEmpty(_)
TrimAndDropEmpty(lines) ==
    IF lines = <<>> THEN <<>>
    ELSE IF Trim(Head(lines)) = <<>> THEN TrimAndDropEmpty(Tail(lines))
    ELSE <<Trim(Head(lines))>> \o TrimAndDropEmpty(Tail(lines))

ParseLines(data) == TrimAndDropEmpty(Split(data, "\n"))

\* Faulty variant: the line is taken as it is, without the http:// prefix.
NormalizeLine_NoPrefix(line) == line

NormalizeLine(line) ==
    IF ~Includes(line, <<"://">>) THEN <<"http", "://">> \o line ELSE line

\* Faulty variant: adding a value the Set already holds moves it to the end.
SetAdd_MovesToEnd(allProxies, x) ==
    Append(SelectSeq(allProxies, LAMBDA y : y # x), x)

\* Set.add on a Set kept in insertion order.
SetAdd(allProxies, x) ==
    IF x \in Range(allProxies) THEN allProxies ELSE Append(allProxies, x)

RECURSIVE AddLines(_, _)
AddLines(allProxies, lines) ==
    IF lines = <<>> THEN allProxies
    ELSE AddLines(SetAdd(allProxies, NormalizeLine(Head(lines))), Tail(lines))

\* Faulty variant: a source that fails aborts the fetch and loses what was collected.
HandleSourceResponse_Abort(allProxies, resp) ==
    IF resp.threw THEN <<>>
    ELSE IF resp.status = 200 /\ resp.data # <<>>
         THEN AddLines(allProxies, ParseLines(resp.data))
         ELSE allProxies

\* One iteration of the loop over GITHUB_SOURCES, given the outcome of axios.get.
HandleSourceResponse(allProxies, resp) ==
    IF resp.threw THEN allProxies
    ELSE IF resp.status = 200 /\ resp.data # <<>>
         THEN AddLines(allProxies, ParseLines(resp.data))
         ELSE allProxies

(***************************************************************************)
(* Pool Builder: the loop of validateProxies.                              *)
(***************************************************************************)
\* Faulty variant: the break is taken one success too late.
QuotaReached_Late(valid) == Len(valid) > QUOTA

QuotaReached(valid) == Len(valid) >= QUOTA

PushIfOk(valid, proxy, isOk) == IF isOk THEN Append(valid, proxy) ELSE valid

\* Faulty variant: no break, every candidate of the list is validated.
LoopEnds_NoBreak(proxyList, vidx, valid) == vidx > Len(proxyList)

\* The loop ends when the list is exhausted or the break is taken.
LoopEnds(proxyList, vidx, valid) == vidx > Len(proxyList) \/ QuotaReached(valid)


(***************************************************************************)
(* The environment: what the sources serve and which proxies work.         *)
(* Each line a source may serve is listed with the endpoint it denotes     *)
(* (none for a blank line).                                                *)
(***************************************************************************)
Http(h) == <<"http", "://", h>>
Https(h) == <<"https", "://", h>>

Blank == [raw |-> <<>>, means |-> {}]
Bare1 == [raw |-> <<" ", "1", " ">>, means |-> {Http("1")}]
Full1 == [raw |-> Http("1"), means |-> {Http("1")}]
Full2 == [raw |-> Https("2"), means |-> {Https("2")}]

\* The bodies a source may answer with, as sequences of lines.
DocLines ==
    { <<>>,
      <<Blank, Blank>>,
      <<Bare1>>,
      <<Full2>>,
      <<Full1, Blank, Full2>>,
      <<Full2, Bare1>>,
      <<Bare1, Full1>> }

Endpoints == UNION {UNION {ls[i].means : i \in 1..Len(ls)} : ls \in DocLines}

RECURSIVE RawOf(_)
RawOf(ls) == IF ls = <<>> THEN <<>> ELSE <<Head(ls).raw>> \o RawOf(Tail(ls))

DocData(ls) == Join(RawOf(ls), "\n")
DocServes(ls) == UNION {ls[i].means : i \in 1..Len(ls)}

\* The outcomes of axios.get(src): it throws (network error, timeout, status
\* outside 2xx) or resolves with a 2xx status and a body.  A body that does
\* not come with status 200 is not read, so it serves nothing.
Threw == [threw |-> TRUE, status |-> 0, data |-> <<>>, serves |-> {}]
Responses ==
    {Threw} \cup
    {[threw |-> FALSE, status |-> 206, data |-> DocData(<<Full2>>), serves |-> {}]} \cup
    { [threw |-> FALSE, status |-> 200, data |-> DocData(ls), serves |-> DocServes(ls)] :
         ls \in DocLines }

\* The .env and the pool listing the program may find when it starts.
InitialStores ==
    { [env |-> NoFile, pool |-> NoFile],
      [env |-> File(Join(<< <<"FOO", "=", "x">>, KeyPrefix \o Http("1") >>, "\n")),
       pool |-> NoFile],
      [env |-> File(KeyPrefix), pool |-> File(Https("2"))],
      [env |-> File(<<" ">> \o KeyPrefix \o Https("2")), pool |-> File(Https("2"))] }

(***************************************************************************)
(* State.                                                                  *)
(***************************************************************************)
VARIABLES
    proc,       \* "init", "startup" (first cycle awaited), "scheduled", "exited"
    exitCause,  \* "none", "mkdir", "startupCycle", "timerCycle"
    outputDir,  \* whether directory output/ exists
    envFile,    \* .env
    poolFile,   \* output/valid_proxies.txt
    target,     \* TEST_URL behind the proxies: [fixed, up], see ValidationOutcomes
    ticks,      \* timer callbacks fired so far
    cyc         \* the calls of checkCurrentProxy: 1 is main's, 2.. the timer's

vars == <<proc, exitCause, outputDir, envFile, poolFile, target, ticks, cyc>>

MaxCycles == MaxTicks + 1
Cycles == 1..MaxCycles

IdleCycle ==
    [ pc |-> "idle", cur |-> Null, src |-> 0, allProxies |-> <<>>, vidx |-> 0,
      valid |-> <<>>, chosen |-> Null, envLines |-> <<>>, result |-> "none",
      \* history, for the properties only:
      got |-> <<>>,        \* per source answered so far: did it answer 200
      served |-> {},       \* the endpoints those answers listed
      tested |-> {},       \* the candidates validateSingleProxy was called on
      passed |-> {},       \* those it returned true for
      stillGood |-> "none", \* its answer for the current proxy: "yes" or "no"
      act0 |-> Null,       \* the store when the call began: the active proxy
      pool0 |-> NoFile,    \*   and the pool listing
      env0 |-> NoFile,     \* .env when the call entered setEnvProxy
      nWrite |-> 0 ]       \* files this call has opened for writing

FinishedCycle == [IdleCycle EXCEPT !.pc = "finished"]

\* Positions inside one synchronous continuation: no other callback runs.
SyncPcs == {"fetched", "writePoolOpen", "writePoolData", "setEnvRead", "setEnvOpen",
            "setEnvData", "resolved", "rejected"}
ActivePcs == {"check", "fetch", "validate"} \cup SyncPcs

InSync == \E c \in Cycles : cyc[c].pc \in SyncPcs
Alive == proc \in {"startup", "scheduled"}

\* What validateSingleProxy(proxyUrl) may return.  Against a target whose
\* answers are fixed it returns whether the proxy is up; otherwise proxies come
\* and go between any two requests and either answer is possible.
FreeTarget == [fixed |-> FALSE, up |-> {}]
ValidationOutcomes(proxyUrl) ==
    IF target.fixed THEN {proxyUrl \in target.up} ELSE BOOLEAN
Active(c) == cyc[c].pc \in ActivePcs

Init ==
    /\ proc = "init"
    /\ exitCause = "none"
    /\ \E st \in InitialStores : envFile = st.env /\ poolFile = st.pool
    /\ outputDir = poolFile.exists
    /\ target = FreeTarget
    /\ ticks = 0
    /\ cyc = [c \in Cycles |-> IdleCycle]


(***************************************************************************)
(* Control flow of checkCurrentProxy and scrapeValidateAndInject, as the   *)
(* record of one call after each continuation.                             *)
(***************************************************************************)
Resolve(rec, res) == [rec EXCEPT !.pc = "resolved", !.result = res]
\* A file system call throws: what = "readThrew" or "writeThrew".
Reject(rec, what) == [rec EXCEPT !.pc = "rejected", !.result = what]

\* scrapeValidateAndInject up to its first await: the GET of the first source.
BeginScrape(rec) ==
    [rec EXCEPT !.pc = "fetch", !.src = 1, !.allProxies = <<>>]

\* checkCurrentProxy up to its first await.  readOk: readFileSync did not throw.
BeginCheck(rec, env, pool, readOk) ==
    LET currentProxy == getCurrentProxyFromEnv(env)
        r0 == [rec EXCEPT !.act0 = currentProxy, !.pool0 = pool]
    IN  IF ~readOk THEN Reject(r0, "readThrew")
        ELSE IF IsMissing(currentProxy) THEN BeginScrape([r0 EXCEPT !.cur = currentProxy])
        ELSE [r0 EXCEPT !.pc = "check", !.cur = currentProxy]

\* Faulty variant: the answer is ignored and the refresh always runs.
AfterCheck_AlwaysScrape(rec, stillGood) == BeginScrape(rec)

\* After validateSingleProxy(currentProxy) answered.
AfterCheck(rec, stillGood) ==
    IF stillGood THEN Resolve(rec, "good") ELSE BeginScrape(rec)

\* validateProxies returned: steps 2) and 3) of scrapeValidateAndInject.
AfterValidate(rec) ==
    IF rec.valid = <<>> THEN Resolve(rec, "false")
    ELSE [rec EXCEPT !.pc = "writePoolOpen"]

\* After the answer for proxyList[vidx].
ValidateStep(rec, isOk) ==
    LET v == PushIfOk(rec.valid, rec.allProxies[rec.vidx], isOk)
        r == [rec EXCEPT !.valid = v, !.vidx = rec.vidx + 1]
    IN  IF LoopEnds(r.allProxies, r.vidx, r.valid) THEN AfterValidate(r) ELSE r

\* fetchGitHubProxies returned: step 1) of scrapeValidateAndInject, then the
\* entry of validateProxies up to its first await.
AfterFetch(rec) ==
    IF rec.allProxies = <<>> THEN Resolve([rec EXCEPT !.got = <<>>], "false")
    ELSE [rec EXCEPT !.pc = "validate", !.vidx = 1, !.valid = <<>>, !.got = <<>>]

\* After the answer of source rec.src.
FetchStep(rec, resp) ==
    LET r == [rec EXCEPT !.allProxies = HandleSourceResponse(rec.allProxies, resp),
                         !.got = Append(rec.got, ~resp.threw /\ resp.status = 200),
                         !.served = rec.served \cup resp.serves]
    IN  IF rec.src < NumSources THEN [r EXCEPT !.src = rec.src + 1]
        ELSE [r EXCEPT !.pc = "fetched"]

\* valid.join('\n'), the text of output/valid_proxies.txt.
PoolListing(valid) == Join(valid, "\n")

\* Faulty variant: Math.round for Math.floor; past the end the element is undefined.
Chosen_Round(valid, k) ==
    IF k + 2 <= Len(valid) THEN valid[k + 2] ELSE <<"undefined">>

\* valid[Math.floor(Math.random() * valid.length)], k the random index (0-based).
Chosen(valid, k) == valid[k + 1]

(***************************************************************************)
(* Actions.                                                                *)
(***************************************************************************)
\* main: ensureOutputDir, then the first checkCurrentProxy up to its await.
Main ==
    /\ proc = "init"
    /\ \/ /\ ~outputDir
          /\ proc' = "exited" /\ exitCause' = "mkdir"      \* mkdirSync throws
          /\ UNCHANGED <<outputDir, cyc>>
       \/ /\ outputDir' = TRUE
          /\ proc' = "startup"
          /\ \E readOk \in {ok \in BOOLEAN : ~envFile.exists => ok} :
               cyc' = [cyc EXCEPT ![1] = BeginCheck(cyc[1], envFile, poolFile, readOk)]
          /\ UNCHANGED exitCause
    /\ UNCHANGED <<envFile, poolFile, target, ticks>>

\* Faulty variant: a tick that finds a call of checkCurrentProxy in progress is skipped.
Tick_SkipsWhenBusy ==
    /\ proc = "scheduled"
    /\ ~InSync
    /\ \A c \in Cycles : ~Active(c)
    /\ ticks < MaxTicks
    /\ ticks' = ticks + 1
    /\ \E readOk \in {ok \in BOOLEAN : ~envFile.exists => ok} :
         cyc' = [cyc EXCEPT ![ticks + 2] =
                   BeginCheck(cyc[ticks + 2], envFile, poolFile, readOk)]
    /\ UNCHANGED <<proc, exitCause, outputDir, envFile, poolFile, target>>

\* The setInterval callback: fires every CHECK_INTERVAL_MS whatever else runs.
Tick ==
    /\ proc = "scheduled"
    /\ ~InSync
    /\ ticks < MaxTicks
    /\ ticks' = ticks + 1
    /\ \E readOk \in {ok \in BOOLEAN : ~envFile.exists => ok} :
         cyc' = [cyc EXCEPT ![ticks + 2] =
                   BeginCheck(cyc[ticks + 2], envFile, poolFile, readOk)]
    /\ UNCHANGED <<proc, exitCause, outputDir, envFile, poolFile, target>>

CheckResponse(c) ==
    /\ Alive /\ ~InSync
    /\ cyc[c].pc = "check"
    /\ \E stillGood \in ValidationOutcomes(cyc[c].cur[1]) :
         cyc' = [cyc EXCEPT ![c] =
                   [AfterCheck(cyc[c], stillGood) EXCEPT
                      !.stillGood = IF stillGood THEN "yes" ELSE "no"]]
    /\ UNCHANGED <<proc, exitCause, outputDir, envFile, poolFile, target, ticks>>

FetchResponse(c) ==
    /\ Alive /\ ~InSync
    /\ cyc[c].pc = "fetch"
    /\ \E resp \in Responses : cyc' = [cyc EXCEPT ![c] = FetchStep(cyc[c], resp)]
    /\ UNCHANGED <<proc, exitCause, outputDir, envFile, poolFile, target, ticks>>

\* fetchGitHubProxies returns its result to scrapeValidateAndInject.
FetchReturn(c) ==
    /\ Alive
    /\ cyc[c].pc = "fetched"
    /\ cyc' = [cyc EXCEPT ![c] = AfterFetch(cyc[c])]
    /\ UNCHANGED <<proc, exitCause, outputDir, envFile, poolFile, target, ticks>>

ValidateResponse(c) ==
    /\ Alive /\ ~InSync
    /\ cyc[c].pc = "validate"
    /\ LET proxy == cyc[c].allProxies[cyc[c].vidx]
       IN  \E isOk \in ValidationOutcomes(proxy) :
             cyc' = [cyc EXCEPT ![c] =
                       [ValidateStep(cyc[c], isOk) EXCEPT
                          !.tested = @ \cup {proxy},
                          !.passed = IF isOk THEN @ \cup {proxy} ELSE @]]
    /\ UNCHANGED <<proc, exitCause, outputDir, envFile, poolFile, target, ticks>>

\* fs.writeFileSync(OUTPUT_FILE, ...): open with truncation, then write.
WritePoolOpen(c) ==
    /\ Alive
    /\ cyc[c].pc = "writePoolOpen"
    /\ \/ /\ poolFile' = File(<<>>)
          /\ cyc' = [cyc EXCEPT ![c].pc = "writePoolData", ![c].nWrite = @ + 1]
       \/ /\ cyc' = [cyc EXCEPT ![c] = Reject(@, "writeThrew")]
          /\ UNCHANGED poolFile
    /\ UNCHANGED <<proc, exitCause, outputDir, envFile, target, ticks>>

\* Faulty variant: the listing is added to the one found when the cycle began.
WritePoolData_Appends(c) ==
    /\ Alive
    /\ cyc[c].pc = "writePoolData"
    /\ \/ /\ poolFile' = IF cyc[c].pool0.exists
                          THEN File(Join(<<cyc[c].pool0.data, PoolListing(cyc[c].valid)>>, "\n"))
                          ELSE File(PoolListing(cyc[c].valid))
          /\ \E k \in 0..(Len(cyc[c].valid) - 1) :
               cyc' = [cyc EXCEPT ![c].pc = "setEnvRead",
                                  ![c].chosen = Some(Chosen(cyc[c].valid, k)),
                                  ![c].env0 = envFile]
       \/ /\ cyc' = [cyc EXCEPT ![c] = Reject(@, "writeThrew")]
          /\ UNCHANGED poolFile
    /\ UNCHANGED <<proc, exitCause, outputDir, envFile, target, ticks>>

WritePoolData(c) ==
    /\ Alive
    /\ cyc[c].pc = "writePoolData"
    /\ \/ /\ poolFile' = File(PoolListing(cyc[c].valid))
          /\ \E k \in 0..(Len(cyc[c].valid) - 1) :
               cyc' = [cyc EXCEPT ![c].pc = "setEnvRead",
                                  ![c].chosen = Some(Chosen(cyc[c].valid, k)),
                                  ![c].env0 = envFile]
       \/ /\ cyc' = [cyc EXCEPT ![c] = Reject(@, "writeThrew")]
          /\ UNCHANGED poolFile
    /\ UNCHANGED <<proc, exitCause, outputDir, envFile, target, ticks>>

\* setEnvProxy: existsSync and readFileSync.
SetEnvRead(c) ==
    /\ Alive
    /\ cyc[c].pc = "setEnvRead"
    /\ \/ cyc' = [cyc EXCEPT ![c].pc = "setEnvOpen",
                             ![c].envLines = ReadEnvLines(envFile)]
       \/ /\ envFile.exists
          /\ cyc' = [cyc EXCEPT ![c] = Reject(@, "readThrew")]
    /\ UNCHANGED <<proc, exitCause, outputDir, envFile, poolFile, target, ticks>>

\* setEnvProxy: fs.writeFileSync(envPath, ...), open with truncation.
SetEnvOpen(c) ==
    /\ Alive
    /\ cyc[c].pc = "setEnvOpen"
    /\ \/ /\ envFile' = File(<<>>)
          /\ cyc' = [cyc EXCEPT ![c].pc = "setEnvData", ![c].nWrite = @ + 1]
       \/ /\ cyc' = [cyc EXCEPT ![c] = Reject(@, "writeThrew")]
          /\ UNCHANGED envFile
    /\ UNCHANGED <<proc, exitCause, outputDir, poolFile, target, ticks>>

\* setEnvProxy: the write itself, then scrapeValidateAndInject returns true.
SetEnvData(c) ==
    /\ Alive
    /\ cyc[c].pc = "setEnvData"
    /\ \/ /\ envFile' = File(NewEnvData(cyc[c].envLines, cyc[c].chosen[1]))
          /\ cyc' = [cyc EXCEPT ![c] = Resolve(@, "true")]
       \/ /\ cyc' = [cyc EXCEPT ![c] = Reject(@, "writeThrew")]
          /\ UNCHANGED envFile
    /\ UNCHANGED <<proc, exitCause, outputDir, poolFile, target, ticks>>

\* process.exit: every call in flight ends with the process.
AllEnded == [c \in Cycles |-> IF cyc[c].pc = "idle" THEN IdleCycle ELSE FinishedCycle]

\* The promise of main's checkCurrentProxy settles: setInterval, or [FATAL].
SettleStartup ==
    /\ proc = "startup"
    /\ cyc[1].pc \in {"resolved", "rejected"}
    /\ IF cyc[1].pc = "resolved"
       THEN /\ proc' = "scheduled" /\ UNCHANGED exitCause
            /\ cyc' = [cyc EXCEPT ![1] = FinishedCycle]
       ELSE /\ proc' = "exited" /\ exitCause' = "startupCycle"
            /\ cyc' = AllEnded
    /\ UNCHANGED <<outputDir, envFile, poolFile, target, ticks>>

\* The promise of a timer callback settles.  Nothing handles its rejection,
\* and Node 18 (the version the build pins) ends the process on an unhandled
\* rejection.
SettleTimer(c) ==
    /\ proc = "scheduled"
    /\ c > 1
    /\ cyc[c].pc \in {"resolved", "rejected"}
    /\ IF cyc[c].pc = "resolved"
       THEN /\ UNCHANGED <<proc, exitCause>>
            /\ cyc' = [cyc EXCEPT ![c] = FinishedCycle]
       ELSE /\ proc' = "exited" /\ exitCause' = "timerCycle"
            /\ cyc' = AllEnded
    /\ UNCHANGED <<outputDir, envFile, poolFile, target, ticks>>

Next ==
    \/ Main
    \/ Tick
    \/ \E c \in Cycles : CheckResponse(c)
    \/ \E c \in Cycles : FetchResponse(c)
    \/ \E c \in Cycles : FetchReturn(c)
    \/ \E c \in Cycles : ValidateResponse(c)
    \/ \E c \in Cycles : WritePoolOpen(c)
    \/ \E c \in Cycles : WritePoolData(c)
    \/ \E c \in Cycles : SetEnvRead(c)
    \/ \E c \in Cycles : SetEnvOpen(c)
    \/ \E c \in Cycles : SetEnvData(c)
    \/ SettleStartup
    \/ \E c \in Cycles : SettleTimer(c)

Spec == Init /\ [][Next]_vars


(***************************************************************************)
(* validateProxies on its own: a candidate list of up to MaxCandidates     *)
(* distinct endpoints and a health target whose answers are fixed for the  *)
(* run.  The candidates that fail are among the first two and the last.    *)
(***************************************************************************)
Candidates(n) == [i \in 1..n |-> Http(ToString(i))]

FailingSets(n) == SUBSET {Http(ToString(i)) : i \in {1, 2, n}}

ValidateCall(proxyList) ==
    [IdleCycle EXCEPT !.pc = "validate", !.allProxies = proxyList,
                      !.vidx = 1, !.valid = <<>>]

InitValidate ==
    /\ proc = "startup"
    /\ exitCause = "none"
    /\ outputDir = TRUE
    /\ envFile = NoFile
    /\ poolFile = NoFile
    /\ ticks = 0
    /\ \E n \in 1..MaxCandidates :
         /\ cyc = [c \in Cycles |-> IF c = 1 THEN ValidateCall(Candidates(n)) ELSE IdleCycle]
         /\ \E bad \in FailingSets(n) :
              target = [fixed |-> TRUE, up |-> Range(Candidates(n)) \ bad]

NextValidate == ValidateResponse(1)

SpecValidate == InitValidate /\ [][NextValidate]_vars


(***************************************************************************)
(* fetchGitHubProxies and validateProxies of one refresh in a world whose  *)
(* answers are fixed: what each source answers and which proxies work.     *)
(* Source 1 lists 1..k as bare host:port lines, source 2 lists n down to   *)
(* k-1 with their scheme, so two endpoints are listed by both; order is    *)
(* the endpoints a body lists, line by line.  The runs that start at       *)
(* validateProxies with a long list are those of InitValidate.             *)
(***************************************************************************)
BareLine(i) == <<ToString(i)>>

BulkAnswer(lines, endpoints) ==
    [threw |-> FALSE, status |-> 200, data |-> Join(lines, "\n"),
     serves |-> Range(endpoints), order |-> endpoints]

Source1Answer(k) ==
    BulkAnswer([i \in 1..k |-> BareLine(i)], [i \in 1..k |-> Http(ToString(i))])

Source2Answer(k, n) ==
    LET endpoints == [i \in 1..(n - k + 2) |-> Http(ToString(n + 1 - i))]
    IN  BulkAnswer(endpoints, endpoints)

ThrewAnswer == [threw |-> TRUE, status |-> 0, data |-> <<>>, serves |-> {}, order |-> <<>>]

FixedWorld(n, k, a1, bad) ==
    [fixed |-> TRUE, answers |-> <<a1, Source2Answer(k, n)>>,
     up |-> {Http(ToString(i)) : i \in 1..n} \ bad]

FixedWorlds ==
    UNION { UNION { { FixedWorld(n, k, a1, bad) :
                        a1 \in {ThrewAnswer, Source1Answer(k)},
                        bad \in SUBSET {Http(ToString(1)), Http(ToString(k + 1)),
                                        Http(ToString(n))} } :
                    k \in {2, n - 2} } :
            n \in {MaxListed - 1, MaxListed} }

InitFetchFixed ==
    /\ proc = "startup"
    /\ exitCause = "none"
    /\ outputDir = TRUE
    /\ envFile = NoFile
    /\ poolFile = NoFile
    /\ ticks = 0
    /\ cyc = [c \in Cycles |-> IF c = 1 THEN BeginScrape(IdleCycle) ELSE IdleCycle]
    /\ target \in FixedWorlds

InitPool == InitFetchFixed \/ InitValidate

\* The answer of source src arrives.
FetchFixed(c) ==
    /\ Alive /\ ~InSync
    /\ cyc[c].pc = "fetch"
    /\ cyc' = [cyc EXCEPT ![c] = FetchStep(cyc[c], target.answers[cyc[c].src])]
    /\ UNCHANGED <<proc, exitCause, outputDir, envFile, poolFile, target, ticks>>

NextPool == FetchFixed(1) \/ FetchReturn(1) \/ ValidateResponse(1)

SpecPool == InitPool /\ [][NextPool]_vars


(***************************************************************************)
(* setEnvProxy on its own: called with an endpoint on a .env of up to      *)
(* MaxEnvLines lines (or on none).  The lines are other settings, blank    *)
(* lines, and PROXY_SERVER lines with a value, without one, or indented.   *)
(***************************************************************************)
EnvLineKinds ==
    { <<"FOO", "=", "x">>,
      <<>>,
      KeyPrefix,
      KeyPrefix \o Http("1"),
      KeyPrefix \o Https("2"),
      <<" ">> \o KeyPrefix \o Https("2") }

EnvFiles ==
    {NoFile} \cup
    UNION { {File(Join(ls, "\n")) : ls \in [1..n -> EnvLineKinds]} : n \in 0..MaxEnvLines }

NewProxies == {Http("1"), Https("2"), Https("3")}

SetEnvCall(proxyUrl, env) ==
    [IdleCycle EXCEPT !.pc = "setEnvRead", !.chosen = Some(proxyUrl), !.env0 = env]

InitStore ==
    /\ proc = "startup"
    /\ exitCause = "none"
    /\ outputDir = TRUE
    /\ envFile \in EnvFiles
    /\ poolFile = NoFile
    /\ target = FreeTarget
    /\ ticks = 0
    /\ \E proxyUrl \in NewProxies :
         cyc = [c \in Cycles |-> IF c = 1 THEN SetEnvCall(proxyUrl, envFile) ELSE IdleCycle]

NextStore == SetEnvRead(1) \/ SetEnvOpen(1) \/ SetEnvData(1)

SpecStore == InitStore /\ [][NextStore]_vars


(***************************************************************************)
(* Properties.                                                             *)
(***************************************************************************)
PoolLines == Split(poolFile.data, "\n")
EnvLinesNow == Split(envFile.data, "\n")
ActiveNow == getCurrentProxyFromEnv(envFile)
Min(a, b) == IF a <= b THEN a ELSE b

RefreshSucceeded(c) == cyc[c].pc = "resolved" /\ cyc[c].result = "true"
RefreshCameUpEmpty(c) == cyc[c].pc = "resolved" /\ cyc[c].result = "false"

\* C1: when scrapeValidateAndInject returns true, the PROXY_SERVER line it has
\* just written to .env names a proxy that is a line of the pool listing the
\* same call has just written.
C1_WrittenActiveInWrittenPool ==
    \A c \in Cycles : RefreshSucceeded(c) =>
        /\ envFile.exists /\ poolFile.exists
        /\ EnvLinesNow[Len(EnvLinesNow)] = KeyPrefix \o cyc[c].chosen[1]
        /\ cyc[c].chosen[1] \in Range(PoolLines)
        /\ Range(PoolLines) = cyc[c].passed

C1_Witness ==
    \E c \in Cycles :
        /\ RefreshSucceeded(c)
        /\ Len(PoolLines) = 2
        /\ cyc[c].chosen[1] = PoolLines[2]

\* C2: at most one call of checkCurrentProxy is in progress at any time (a
\* timer tick that finds one in progress starts no second one).
C2_OneCycleAtATime == Cardinality({c \in Cycles : Active(c)}) <= 1

\* C3: in every state, also in the middle of a refresh, the active proxy, if
\* .env holds one, is a line of the pool listing most recently written (stated
\* for the states in which a pool listing is on disk).
C3_ActiveAlwaysInPool ==
    (poolFile.exists /\ ~IsMissing(ActiveNow)) => ActiveNow[1] \in Range(PoolLines)

\* C4: when a refresh ends because nothing was fetched or nothing validated,
\* the active proxy and the pool listing are what they were when the cycle
\* began.
C4_EmptyRefreshLeavesStore ==
    \A c \in Cycles : RefreshCameUpEmpty(c) =>
        ActiveNow = cyc[c].act0 /\ poolFile = cyc[c].pool0

\* C5: a cycle whose check of the present active proxy answers "reachable"
\* ends there: it has fetched no source, validated no candidate and opened no
\* file for writing.
C5_GoodProxyEndsCycle ==
    \A c \in Cycles : cyc[c].stillGood = "yes" =>
        /\ cyc[c].pc = "resolved" /\ cyc[c].result = "good"
        /\ cyc[c].src = 0 /\ cyc[c].got = <<>> /\ cyc[c].allProxies = <<>>
        /\ cyc[c].tested = {}
        /\ cyc[c].nWrite = 0

C5_Witness ==
    \E c \in Cycles :
        /\ c > 1
        /\ cyc[c].stillGood = "yes"
        /\ cyc[c].pc = "resolved"
        /\ ~IsMissing(cyc[c].cur)

\* C6: when validateProxies returns, its result has min(QUOTA, number of
\* candidates that validate) entries, all distinct, and each is a candidate
\* that validates.
C6_PoolSizeAndMembers ==
    LET r == cyc[1]
        good == Range(r.allProxies) \cap target.up
    IN  r.pc # "validate" =>
            /\ Len(r.valid) = Min(QUOTA, Cardinality(good))
            /\ Cardinality(Range(r.valid)) = Len(r.valid)
            /\ Range(r.valid) \subseteq good

C6_Witness ==
    /\ cyc[1].pc # "validate"
    /\ Cardinality(Range(cyc[1].allProxies) \cap target.up) > QUOTA
    /\ Len(cyc[1].valid) = QUOTA
    /\ Http("1") \notin target.up

\* C7: when a write of the pool listing or of .env throws during a refresh,
\* the active proxy and the pool listing are what they were when the cycle
\* began.
C7_WriteErrorLeavesStore ==
    \A c \in Cycles : (cyc[c].pc = "rejected" /\ cyc[c].result = "writeThrew") =>
        ActiveNow = cyc[c].act0 /\ poolFile = cyc[c].pool0

\* C8: the process ends only when the output directory cannot be created at
\* startup; no error of a cycle ends it.
C8_OnlyStartupFailureExits == proc = "exited" => exitCause = "mkdir"

\* C9: a source that fails does not abort fetchGitHubProxies: every source is
\* asked, and the result holds every candidate listed by a source that
\* answered, so it is not empty when some source listed one.
C9_FetchSurvivesSourceFailure ==
    \A c \in Cycles :
        /\ cyc[c].pc = "fetch" =>
              Len(cyc[c].got) = cyc[c].src - 1 /\ cyc[c].served \subseteq Range(cyc[c].allProxies)
        /\ cyc[c].pc = "fetched" =>
              /\ Len(cyc[c].got) = NumSources
              /\ cyc[c].served \subseteq Range(cyc[c].allProxies)
              /\ cyc[c].served # {} => cyc[c].allProxies # <<>>

C9_Witness ==
    \E c \in Cycles :
        /\ cyc[c].pc = "fetched"
        /\ cyc[c].got = <<TRUE, FALSE>>
        /\ cyc[c].allProxies = <<Https("2"), Http("1")>>

C11_ActiveWriteAtomic ==
    \A c \in Cycles :
        (cyc[c].pc = "setEnvData" /\ ~IsMissing(FirstProxyValue(cyc[c].envLines))) =>
            ActiveNow \in {FirstProxyValue(cyc[c].envLines), cyc[c].chosen}

\* C12: the first call of checkCurrentProxy begins at startup, before any
\* timer tick; after it, as long as the process runs, a tick is never held
\* back by a call still in progress, and every tick begins one new call and
\* leaves the calls in progress alone.
C12_CheckingAtStartupAndEveryTick ==
    /\ [](Alive => cyc[1].pc # "idle")
    /\ [](cyc[1].pc \in ActivePcs => ticks = 0)
    /\ []((proc = "scheduled" /\ ~InSync /\ ticks < MaxTicks) => ENABLED Tick)
    /\ [][ticks' # ticks =>
            /\ ticks' = ticks + 1
            /\ cyc[ticks + 2].pc = "idle" /\ cyc'[ticks + 2].pc \in ActivePcs
            /\ \A c \in Cycles \ {ticks + 2} : cyc'[c] = cyc[c]]_vars

C12_Witness ==
    \E c \in Cycles :
        /\ c = ticks + 1 /\ c > 2
        /\ cyc[c].pc \in {"check", "fetch"}
        /\ cyc[c - 1].pc = "validate"

\* The candidates among the first i of the list that validate.
PassingUpTo(proxyList, i) == {j \in 1..i : proxyList[j] \in target.up}

\* The place in the list of the QUOTA-th candidate that validates, or the
\* length of the list when fewer validate.
QuotaPosition(proxyList) ==
    IF Cardinality(PassingUpTo(proxyList, Len(proxyList))) < QUOTA THEN Len(proxyList)
    ELSE CHOOSE i \in 1..Len(proxyList) :
            proxyList[i] \in target.up /\ Cardinality(PassingUpTo(proxyList, i)) = QUOTA

\* Calls of validateSingleProxy made so far by validateProxies: while the loop
\* runs, the call for proxyList[vidx] is in flight.
ValidatorCalls(r) == IF r.pc = "validate" THEN r.vidx ELSE r.vidx - 1

\* C13: validateProxies never calls the validator on more candidates than
\* the place of the QUOTA-th passing candidate in its list; once QUOTA
\* candidates have passed no call is in flight or made; and the calls answered
\* were made on as many different candidates, so none is validated twice.
C13_NoValidationPastQuota ==
    LET r == cyc[1]
    IN  /\ ValidatorCalls(r) <= QuotaPosition(r.allProxies)
        /\ Len(r.valid) >= QUOTA => r.pc # "validate"
        /\ Cardinality(r.tested) = r.vidx - 1
        /\ r.tested = {r.allProxies[i] : i \in 1..(r.vidx - 1)}

C13_Witness ==
    /\ cyc[1].pc # "validate"
    /\ Len(cyc[1].valid) = QUOTA
    /\ Len(cyc[1].allProxies) = QUOTA + 2
    /\ ValidatorCalls(cyc[1]) = QUOTA + 1
    /\ target.up = Range(cyc[1].allProxies) \ {Http("2")}

\* The endpoints the sources listed, in the order of the sources and of the
\* lines of each, repetitions included.
Discovered(answers) == answers[1].order \o answers[2].order

\* A list in the order in which its values first occur.
RECURSIVE FirstDiscoveries(_, _)
FirstDiscoveries(listed, seen) ==
    IF listed = <<>> THEN <<>>
    ELSE IF Head(listed) \in seen THEN FirstDiscoveries(Tail(listed), seen)
    ELSE <<Head(listed)>> \o FirstDiscoveries(Tail(listed), seen \cup {Head(listed)})

\* The first q values of a list that are in up, in the order of the list.
FirstPassing(list, up, q) ==
    LET passing == SelectSeq(list, LAMBDA x : x \in up)
    IN  SubSeq(passing, 1, Min(q, Len(passing)))

\* C14: with the answers of the sources and of the validator fixed, the pool
\* validateProxies returns is a function of them, so any two runs return the
\* same: the candidates are the endpoints listed, in the order of the sources
\* and then of first discovery, and the pool is the first QUOTA of the
\* candidates that validate (all that validate, when fewer), in the order of
\* the candidates.
C14_PoolDeterminedByOrderAndOutcomes ==
    LET r == cyc[1]
    IN  /\ ("answers" \in DOMAIN target /\ r.pc \notin {"fetch", "fetched"}) =>
              r.allProxies = FirstDiscoveries(Discovered(target.answers), {})
        /\ r.pc \notin {"fetch", "fetched", "validate"} =>
              r.valid = FirstPassing(r.allProxies, target.up, QUOTA)

C14_Witness ==
    /\ cyc[1].pc = "writePoolOpen"
    /\ Len(cyc[1].valid) = QUOTA
    /\ cyc[1].valid[2] = Http("3")
    /\ Cardinality(Range(cyc[1].allProxies) \cap target.up) = QUOTA + 1

\* C15: when a refresh has succeeded, the pool listing is the text this
\* refresh wrote and nothing else: its lines are, each once, the proxies that
\* validated in this refresh, and a line of the listing found when the cycle
\* began is among them only if it validated again.
C15_PoolReplacedWholesale ==
    \A c \in Cycles : RefreshSucceeded(c) =>
        /\ poolFile = File(PoolListing(cyc[c].valid))
        /\ Range(PoolLines) = cyc[c].passed
        /\ Len(PoolLines) = Cardinality(cyc[c].passed)
        /\ cyc[c].pool0.exists =>
              \A e \in Range(Split(cyc[c].pool0.data, "\n")) :
                  e \in Range(PoolLines) => e \in cyc[c].passed

C15_Witness ==
    \E c \in Cycles :
        /\ RefreshSucceeded(c)
        /\ cyc[c].pool0 = File(Https("2"))
        /\ Https("2") \in cyc[c].tested \ cyc[c].passed
        /\ PoolLines = <<Http("1")>>

\* C16: a cycle that found no active proxy (and then made no validator call
\* on it) or found one that failed validation, and in which a fetched
\* candidate validated, ends, when it ends without an error, with an active
\* proxy in .env that validated in this cycle.
C16_CycleInstallsValidatedProxy ==
    \A c \in Cycles :
        /\ (IsMissing(cyc[c].act0) /\ cyc[c].pc # "idle") => cyc[c].stillGood = "none"
        /\ ( /\ cyc[c].pc = "resolved"
             /\ IsMissing(cyc[c].act0) \/ cyc[c].stillGood = "no"
             /\ cyc[c].passed # {} ) =>
               /\ ~IsMissing(ActiveNow)
               /\ ActiveNow[1] \in cyc[c].passed

\* C17: whatever .env held before, getCurrentProxyFromEnv called right after
\* setEnvProxy(p) has returned gives p.
C17_SetThenGetRoundTrip ==
    cyc[1].pc = "resolved" => ActiveNow = cyc[1].chosen

\* The lines of .env as setEnvProxy found it: none when there was no file.
LinesBefore(c) ==
    IF cyc[c].env0.exists THEN Split(cyc[c].env0.data, "\n") ELSE <<>>

\* C18: when setEnvProxy(p) has returned, the lines of .env that do not start
\* with PROXY_SERVER= are those it found, in the same order and unchanged, and
\* exactly one line starts with PROXY_SERVER=: the line PROXY_SERVER=p.
C18_SetEnvChangesOnlyKey ==
    cyc[1].pc = "resolved" =>
        /\ SelectSeq(EnvLinesNow, LAMBDA l : ~StartsWith(l, KeyPrefix)) =
             SelectSeq(LinesBefore(1), LAMBDA l : ~StartsWith(l, KeyPrefix))
        /\ SelectSeq(EnvLinesNow, LAMBDA l : StartsWith(l, KeyPrefix)) =
             << KeyPrefix \o cyc[1].chosen[1] >>

C18_Witness ==
    /\ cyc[1].pc = "resolved"
    /\ LinesBefore(1) = << KeyPrefix \o Http("1"),
                           <<" ">> \o KeyPrefix \o Https("2"),
                           KeyPrefix \o Https("2") >>
    /\ EnvLinesNow = << <<" ">> \o KeyPrefix \o Https("2"), KeyPrefix \o Https("3") >>

\* Positions between the first write of a refresh and its last.
WritingPcs == {"writePoolData", "setEnvRead", "setEnvOpen", "setEnvData"}

\* No two cycles are between their first write and their last at once.
OneWriterAtATime == Cardinality({c \in Cycles : cyc[c].pc \in WritingPcs}) <= 1

\* C19: the writes of a refresh are not interleaved with those of another
\* cycle: at most one cycle is between its pool write and its .env write, and
\* when a refresh has succeeded the pool listing and the active proxy in the
\* store are both the ones this refresh wrote.
C19_WritesSerializedStoreCoherent ==
    /\ OneWriterAtATime
    /\ \A c \in Cycles : RefreshSucceeded(c) =>
          /\ poolFile = File(PoolListing(cyc[c].valid))
          /\ ActiveNow = cyc[c].chosen

=============================================================================
